---- MODULE Spec2Model ----
(***************************************************************************)
(* The trivia API of backend/flaskr/__init__.py as a state machine: the    *)
(* question store, the paginated listing, create / delete, and the quiz    *)
(* selector POST /quizzes (play) with its rejection loop.                  *)
(*                                                                         *)
(* Requests are handled one at a time.  A handler that cannot loop is one  *)
(* action; play is three: the straight-line part (lines 218-239, and the   *)
(* return at 249 when the loop is not entered), the re-draw of line 241    *)
(* and the length test of line 243.                                        *)
(***************************************************************************)
EXTENDS Integers, Sequences, FiniteSets, TLC

\* ------------------------------------------------------------------ bounds
MaxId == 3          \* ids the store hands out in Spec and SessSpec
MaxHist == 2        \* longest previous_questions list of a quiz request
MaxPage == 4        \* ?page= ranges over -MaxPage..MaxPage
MaxStored == 25     \* most questions stored in PagSpec
MaxGap == 2         \* PagSpec seeds ids g, 2g, 3g, ... for g in 1..MaxGap

\* ------------------------------------------------------- program constants
QUESTIONS_PER_PAGE == 10

\* Ids of the Category records.  No handler writes the category table.
Categories == {1}

\* Values a category id takes in a request: 0 (the "all" sentinel, or a
\* literal 0), a known category, an unknown one.
CategoryValues == {0, 1, 2}

\* ----------------------------------------------------------------- helpers
Range(s) == {s[i] : i \in 1..Len(s)}

Min(a, b) == IF a < b THEN a ELSE b

Max(a, b) == IF a > b THEN a ELSE b

Ids(qs) == {q.id : q \in qs}

\* Python's None where a question dict is expected.
NoQuestion == [id |-> 0, category |-> 0]

\* Question.format(): the dict of the question's fields.
format(q) == [id |-> q.id, category |-> q.category]

\* Python's s[start:end] on a list, 0-based, negative indices counted from
\* the end and both ends clipped to the list.
PySlice(s, start, end) ==
    LET n  == Len(s)
        lo == IF start < 0 THEN Max(start + n, 0) ELSE Min(start, n)
        hi == IF end < 0 THEN Max(end + n, 0) ELSE Min(end, n)
    IN  IF lo >= hi THEN <<>> ELSE SubSeq(s, lo + 1, hi)

\* Question.query.order_by(Question.id).all()
RECURSIVE OrderById(_)
OrderById(qs) ==
    IF qs = {} THEN <<>>
    ELSE LET first == CHOOSE q \in qs : \A r \in qs : q.id <= r.id
         IN  <<first>> \o OrderById(qs \ {first})

\* request.args.get('page', 1, type=int)
NoPage == [present |-> FALSE, value |-> 0]

PageArgs == {NoPage} \cup [present : {TRUE}, value : (0 - MaxPage)..MaxPage]

PageOf(arg) == IF arg.present THEN arg.value ELSE 1

\* Fault injection for paginate_questions: the slice starts one page late.
paginate_questions_late(arg, selection) ==
    LET page  == PageOf(arg)
        start == page * QUESTIONS_PER_PAGE
        end   == start + QUESTIONS_PER_PAGE
        questions_ == [i \in 1..Len(selection) |-> format(selection[i])]
    IN  PySlice(questions_, start, end)

paginate_questions(arg, selection) ==
    LET page  == PageOf(arg)
        start == (page - 1) * QUESTIONS_PER_PAGE
        end   == start + QUESTIONS_PER_PAGE
        questions_ == [i \in 1..Len(selection) |-> format(selection[i])]
    IN  PySlice(questions_, start, end)

\* ------------------------------------------------------------ quiz request
\* quiz_category['id'] is a JSON number or a JSON string; form "none" is a
\* body without quiz_category.
NoCategory == [form |-> "none", id |-> 0]

CategoryIds == [form : {"num", "str"}, id : CategoryValues]

NoHistory == [present |-> FALSE, ids |-> <<>>]

RECURSIVE SeqsUpTo(_, _)
SeqsUpTo(S, n) ==
    IF n = 0 THEN {<<>>}
    ELSE LET shorter == SeqsUpTo(S, n - 1)
         IN  shorter \cup {Append(s, x) : s \in shorter, x \in S}

Histories == {[present |-> TRUE, ids |-> h] : h \in SeqsUpTo(1..MaxId, MaxHist)}

QuizBodies ==
    [quiz_category : CategoryIds \cup {NoCategory},
     previous_questions : Histories \cup {NoHistory}]

NoBody == [quiz_category |-> NoCategory, previous_questions |-> NoHistory]

\* Python's category_id == 0: true of the number 0, false of the string "0".
IsZero(category_id) == category_id.form = "num" /\ category_id.id = 0

\* Question.query.filter(Question.category == category_id).all(): the store
\* compares by value whichever form the id came in (test_play_quiz sends
\* '4', test_find_questions_by_given_category_id sends 2).
FilterByCategory(qs, category_id) == {q \in qs : q.category = category_id.id}

\* Lines 225-228 of play.
Selection(qs, category_id) ==
    IF IsZero(category_id) THEN qs ELSE FilterByCategory(qs, category_id)

\* Fault injection for Answered: the membership test of line 237 is lost.
AnsweredNever(question, prev_questions) == FALSE

\* Line 237: current_question['id'] in prev_questions
Answered(question, prev_questions) == question.id \in Range(prev_questions)

\* ---------------------------------------------------------------- responses
NoResponse ==
    [route |-> "none", status |-> 0, kind |-> "none", question |-> NoQuestion,
     questions |-> <<>>, id |-> 0, total |-> 0]

Response(route, status, kind) ==
    [NoResponse EXCEPT !.route = route, !.status = status, !.kind = kind]

\* ------------------------------------------------------------------- state
VARIABLES
    questions,          \* the question table: records [id, category]
    nextId,             \* the id the next insert gets
    deleted,            \* ids DELETE /questions/<id> has answered 'deleted'
    pc,                 \* "idle", "while" (line 240), "check" (line 243), "done"
    req,                \* the JSON body of the quiz request being handled
    selection,          \* play's selection
    current_question,   \* play's current_question
    answered_question,  \* play's answered_question
    args,               \* request.args of the request being handled
    resp                \* the last response sent

vars == <<questions, nextId, deleted, pc, req, selection, current_question,
          answered_question, args, resp>>

store == <<questions, nextId, deleted>>

locals == <<req, selection, current_question, answered_question>>

Init ==
    /\ questions = {}
    /\ nextId = 1
    /\ deleted = {}
    /\ pc = "idle"
    /\ req = NoBody
    /\ selection = {}
    /\ current_question = NoQuestion
    /\ answered_question = FALSE
    /\ args = NoPage
    /\ resp = NoResponse

\* play's locals die with its request.
ResetPlay ==
    /\ pc' = "idle"
    /\ req' = NoBody
    /\ selection' = {}
    /\ current_question' = NoQuestion
    /\ answered_question' = FALSE

\* --------------------------------------------------------------- handlers
Error(route, status) == Response(route, status, "error")

\* GET /questions (lines 73-92)
get_questions(arg) ==
    LET selection_ == OrderById(questions)
        current_questions == paginate_questions(arg, selection_)
    IN  /\ args' = arg
        /\ resp' = IF Len(current_questions) = 0
                   THEN Error("get_questions", 404)
                   ELSE [Response("get_questions", 200, "list") EXCEPT
                            !.questions = current_questions,
                            !.total = Cardinality(questions)]
        /\ ResetPlay
        /\ UNCHANGED store

\* Fault injection for delete_question: the row is reported deleted but kept.
delete_question_kept(question_id, arg) ==
    /\ args' = arg
    /\ IF \A q \in questions : q.id # question_id
       THEN /\ resp' = Error("delete_question", 404)
            /\ UNCHANGED store
       ELSE /\ questions' = questions
            /\ deleted' = deleted \cup {question_id}
            /\ resp' = [Response("delete_question", 200, "deleted") EXCEPT
                          !.id = question_id,
                          !.questions = paginate_questions(arg, OrderById(questions')),
                          !.total = Cardinality(questions')]
            /\ UNCHANGED nextId
    /\ ResetPlay

\* DELETE /questions/<question_id> (lines 102-117)
delete_question(question_id, arg) ==
    /\ args' = arg
    /\ IF \A q \in questions : q.id # question_id
       THEN /\ resp' = Error("delete_question", 404)
            /\ UNCHANGED store
       ELSE /\ questions' = {q \in questions : q.id # question_id}
            /\ deleted' = deleted \cup {question_id}
            /\ resp' = [Response("delete_question", 200, "deleted") EXCEPT
                          !.id = question_id,
                          !.questions = paginate_questions(arg, OrderById(questions')),
                          !.total = Cardinality(questions')]
            /\ UNCHANGED nextId
    /\ ResetPlay

\* Question.insert(): the row gets the next id of the table's sequence; the
\* category column takes whatever value the body carried.
insert(category) ==
    /\ questions' = questions \cup {[id |-> nextId, category |-> category]}
    /\ nextId' = nextId + 1

\* POST /questions (lines 129-152)
create_question(category, arg) ==
    /\ args' = arg
    /\ insert(category)
    /\ resp' = [Response("create_question", 200, "added") EXCEPT
                  !.id = nextId,
                  !.questions = paginate_questions(arg, OrderById(questions')),
                  !.total = Cardinality(questions')]
    /\ UNCHANGED deleted
    /\ ResetPlay

\* POST /quizzes, lines 218-239 and the return of line 249 when the loop is
\* not entered.  Every exception ends in abort(422) (lines 254-256).
play(body) ==
    LET category == body.quiz_category
        prev_questions == body.previous_questions
        fail == /\ pc' = "done"
                /\ resp' = Error("play", 422)
    IN  /\ req' = body
        /\ args' = NoPage
        /\ UNCHANGED store
        /\ IF category.form = "none"
           THEN \* category['id'] on None: TypeError
                /\ fail
                /\ selection' = {}
                /\ current_question' = NoQuestion
                /\ answered_question' = FALSE
           ELSE /\ selection' = Selection(questions, category)
                /\ IF selection' = {}
                   THEN \* random.choice of an empty list: IndexError
                        /\ fail
                        /\ current_question' = NoQuestion
                        /\ answered_question' = FALSE
                   ELSE \E q \in selection' :
                        /\ current_question' = format(q)
                        /\ IF ~prev_questions.present
                           THEN \* 'in None': TypeError
                                /\ fail
                                /\ answered_question' = FALSE
                           ELSE IF Answered(current_question', prev_questions.ids)
                           THEN /\ answered_question' = TRUE
                                /\ pc' = "while"
                                /\ resp' = NoResponse
                           ELSE /\ answered_question' = FALSE
                                /\ pc' = "done"
                                /\ resp' = [Response("play", 200, "question") EXCEPT
                                              !.question = current_question']

\* Lines 240-241: the loop condition and the re-draw.
play_redraw ==
    /\ pc = "while"
    /\ IF answered_question
       THEN /\ \E q \in selection : current_question' = format(q)
            /\ pc' = "check"
            /\ UNCHANGED resp
       ELSE /\ pc' = "done"
            /\ resp' = [Response("play", 200, "question") EXCEPT
                          !.question = current_question]
            /\ UNCHANGED current_question
    /\ UNCHANGED <<store, args, req, selection, answered_question>>

\* Lines 243-247: the only way out of the loop.
play_check ==
    /\ pc = "check"
    /\ IF Len(req.previous_questions.ids) = Cardinality(selection)
       THEN /\ pc' = "done"
            /\ resp' = Response("play", 200, "exhausted")
       ELSE /\ pc' = "while"
            /\ UNCHANGED resp
    /\ UNCHANGED <<store, args, locals>>

\* play has answered: its frame is dropped and the server is free again.
play_return ==
    /\ pc = "done"
    /\ ResetPlay
    /\ UNCHANGED <<store, args, resp>>

\* ----------------------------------------------------------- specification
\* The server takes the next request when no handler is running.
Idle == pc = "idle"

GetQuestions == Idle /\ \E arg \in PageArgs : get_questions(arg)

DeleteQuestion ==
    Idle /\ \E question_id \in 1..MaxId : delete_question(question_id, NoPage)

CreateQuestion ==
    /\ Idle
    /\ nextId <= MaxId
    /\ \E category \in CategoryValues : create_question(category, NoPage)

Play == Idle /\ \E body \in QuizBodies : play(body)

Next ==
    \/ GetQuestions
    \/ DeleteQuestion
    \/ CreateQuestion
    \/ Play
    \/ play_redraw
    \/ play_check
    \/ play_return

Spec == Init /\ [][Next]_vars

\* The interpreter keeps running a handler it has entered.
FairSpec == Spec /\ WF_vars(play_redraw) /\ WF_vars(play_check)

\* ------------------------------------------------- pagination on its own
\* The listing over stores of up to MaxStored questions whose ids have gaps.
PagInit ==
    \E n \in 0..MaxStored, g \in 1..MaxGap :
        /\ questions = {[id |-> g * i, category |-> 1] : i \in 1..n}
        /\ nextId = g * n + 1
        /\ deleted = {i \in 1..(g * n) : i % g # 0}
        /\ pc = "idle"
        /\ req = NoBody
        /\ selection = {}
        /\ current_question = NoQuestion
        /\ answered_question = FALSE
        /\ args = NoPage
        /\ resp = NoResponse

PagCreateQuestion ==
    /\ Idle
    /\ Cardinality(questions) < MaxStored
    /\ create_question(1, NoPage)

PagNext ==
    \/ GetQuestions
    \/ PagCreateQuestion

PagSpec == PagInit /\ [][PagNext]_vars

\* ------------------------------------------------------- one quiz session
\* The caller of a quiz session: an unchanging store, a valid scope, a
\* history that starts empty and grows by each question received.
ValidScopes == {c \in CategoryIds : c.id = 0 \/ c.id \in Categories}

SessInit ==
    \E S \in SUBSET (1..MaxId) : \E f \in [S -> CategoryValues] :
    \E scope \in ValidScopes :
        /\ questions = {[id |-> i, category |-> f[i]] : i \in S}
        /\ nextId = MaxId + 1
        /\ deleted = (1..MaxId) \ S
        /\ pc = "idle"
        /\ req = [quiz_category |-> scope,
                  previous_questions |-> [present |-> TRUE, ids |-> <<>>]]
        /\ selection = {}
        /\ current_question = NoQuestion
        /\ answered_question = FALSE
        /\ args = NoPage
        /\ resp = NoResponse

SessionCall ==
    /\ Idle
    /\ resp.kind = "none"
    /\ play(req)

SessionAppend ==
    /\ pc = "done"
    /\ resp.kind = "question"
    /\ req' = [req EXCEPT !.previous_questions.ids = Append(@, resp.question.id)]
    /\ pc' = "idle"
    /\ resp' = NoResponse
    /\ selection' = {}
    /\ current_question' = NoQuestion
    /\ answered_question' = FALSE
    /\ UNCHANGED <<store, args>>

SessNext ==
    \/ SessionCall
    \/ play_redraw
    \/ play_check
    \/ SessionAppend

SessSpec == SessInit /\ [][SessNext]_vars

\* ------------------------------------------------------------ the contract
\* The candidate pool of a scope: every question for the sentinel 0, the
\* questions of category K for any other id K, whichever form the id has.
CandidatePool(qs, category) ==
    IF category.id = 0 THEN qs ELSE {q \in qs : q.category = category.id}

History == Range(req.previous_questions.ids)

\* Remaining pool = candidate pool minus the questions whose id is in history.
RemainingPool ==
    {q \in CandidatePool(questions, req.quiz_category) : q.id \notin History}

\* play has answered a well-formed request (a scope and a history).
Answered_ ==
    /\ pc = "done"
    /\ req.quiz_category.form # "none"
    /\ req.previous_questions.present

\* C1: every quiz call ends with a response: once play is in its loop it
\* leaves it with an answer, whatever it draws.
PlayTerminates == (pc \in {"while", "check"}) ~> (pc = "done")

\* C2: a question play answers with is not in the request's history and
\* belongs to the candidate pool of the request's scope.
NoRepeat ==
    (Answered_ /\ resp.kind = "question") =>
        /\ resp.question.id \notin History
        /\ \E q \in CandidatePool(questions, req.quiz_category) :
               resp.question = format(q)

\* C2 witness: the partial-history scenario, a question served while the
\* history holds another question of the pool.
NoRepeatWitness ==
    /\ Answered_
    /\ resp.kind = "question"
    /\ History \cap Ids(CandidatePool(questions, req.quiz_category)) # {}
    /\ Cardinality(CandidatePool(questions, req.quiz_category)) >= 2

\* C3: for a valid scope, when the history holds every id of the candidate
\* pool the answer is Exhausted.
ExhaustionCorrect ==
    (/\ Answered_
     /\ req.quiz_category \in ValidScopes
     /\ Ids(CandidatePool(questions, req.quiz_category)) \subseteq History)
        => resp.kind = "exhausted"

\* C4: Exhausted is answered only when the remaining pool is empty.
ExhaustedOnlyWhenEmpty ==
    (Answered_ /\ resp.kind = "exhausted") => RemainingPool = {}

UnknownCategoryRejected ==
    (/\ pc = "done"
     /\ req.quiz_category.form # "none"
     /\ req.quiz_category.id # 0
     /\ req.quiz_category.id \notin Categories)
        => resp.status = 422

\* C7: with the sentinel 0, as a number or as a string, a non-empty store
\* and an empty history, play draws from every stored question and answers
\* with one.
AllSentinel ==
    (/\ Answered_
     /\ req.quiz_category.id = 0
     /\ req.previous_questions.ids = <<>>
     /\ questions # {})
        => (resp.kind = "question" /\ selection = questions)

\* The element at 0-based position k of the questions ordered by id: the
\* one with exactly k smaller ids.
AtPosition(k) ==
    CHOOSE q \in questions :
        Cardinality({r \in questions : r.id < q.id}) = k

\* The half-open slice [(p-1)*10, p*10) clipped to the sequence.
PageSlice(p) ==
    LET first == (p - 1) * QUESTIONS_PER_PAGE
        last  == Min(p * QUESTIONS_PER_PAGE, Cardinality(questions))
    IN  [i \in 1..Max(last - first, 0) |-> format(AtPosition(first + i - 1))]

Listed == resp.route = "get_questions"

\* C8: for a page p >= 1, GET /questions answers with exactly the slice
\* [(p-1)*10, p*10) of the questions ordered by id, and with 404 exactly
\* when that slice is empty.
PaginationSlice ==
    (Listed /\ PageOf(args) >= 1) =>
        /\ (resp.status = 404) <=> (PageSlice(PageOf(args)) = <<>>)
        /\ resp.status # 404 =>
               /\ resp.status = 200
               /\ resp.questions = PageSlice(PageOf(args))
               /\ Len(resp.questions) <= QUESTIONS_PER_PAGE

\* C8 witness: the third page of 25 questions holds the last five.
PaginationWitness ==
    /\ Listed
    /\ PageOf(args) = 3
    /\ Cardinality(questions) = 25
    /\ Len(resp.questions) = 5
    /\ resp.questions[1] = format(AtPosition(20))

\* C9: for a page p < 1 the listing is that of page 1 or the request is
\* rejected.
LowPageSafe ==
    (Listed /\ PageOf(args) < 1) =>
        \/ resp.status = 404
        \/ resp.questions = PageSlice(1)

\* The session was served each question of its scope's pool exactly once.
ServedAll ==
    /\ History = Ids(CandidatePool(questions, req.quiz_category))
    /\ Len(req.previous_questions.ids) =
           Cardinality(CandidatePool(questions, req.quiz_category))

\* C10: a session ends with Exhausted, on the call after the last question
\* of its scope's pool and never earlier: every answer but a question is
\* Exhausted and comes when each question of the pool was served once.
SessionEndsExhausted ==
    (pc = "done" /\ resp.kind # "question") =>
        (resp.kind = "exhausted" /\ ServedAll)

====
